---- MODULE Spec2Model ----
(***************************************************************************)
(* Connect Four (src/src/game.rs, src/src/pawn.rs): the board engine       *)
(* `ConnectFour` and its session loop `ConnectFour::run`.                  *)
(*                                                                         *)
(* Rows and columns are 0-based as in the source; row 0 is the top row.    *)
(* Lines extracted by is_four_connected are sequences (1-based).           *)
(***************************************************************************)
EXTENDS Integers, Sequences, FiniteSets, TLC

(* ------------------------------------------------------------------ *)
(* Program constants                                                   *)
(* ------------------------------------------------------------------ *)
MAX_ROW == 6
MAX_COL == 7
MIN_CONNECT == 4

(* ------------------------------------------------------------------ *)
(* Bounds of the model                                                 *)
(* ------------------------------------------------------------------ *)
\* Spec explores the first MaxMoves placements of every game, and every
\* continuation of the game that opens with Opening.
MaxMoves == 4
\* The largest column number typed at the prompt.
MaxInput == 8

Rows == 0 .. (MAX_ROW - 1)
Cols == 0 .. (MAX_COL - 1)

(* ------------------------------------------------------------------ *)
(* pawn.rs                                                             *)
(* ------------------------------------------------------------------ *)
Red == "Red"
Blue == "Blue"
White == "White"
Pawn == {Red, Blue, White}

\* switch with a fault: the colour is not toggled.
switch_stuck(p) == p

switch(p) ==
  CASE p = Red -> Blue
    [] p = Blue -> Red
    [] p = White -> White

(* ------------------------------------------------------------------ *)
(* Option<usize>                                                       *)
(* ------------------------------------------------------------------ *)
None == [tag |-> "None", val |-> 0]
Some(v) == [tag |-> "Some", val |-> v]

(* ------------------------------------------------------------------ *)
(* The state of the program                                            *)
(* ------------------------------------------------------------------ *)
VARIABLES
  board,          \* ConnectFour.board: [row -> [col -> Pawn]]
  turn,           \* ConnectFour.turn
  is_connected,   \* ConnectFour.is_connected
  is_draw,        \* ConnectFour.is_draw
  moves_stack,    \* ConnectFour.moves_stack: sequence of <<pawn, <<row, col>>>>
  pc,             \* where run() is: "loop", "done", "panicked"
  panic,          \* the panic that ended the program, or "none"
  announced       \* what run() printed after the loop: a pawn, "Draw", or "nothing"

vars == <<board, turn, is_connected, is_draw, moves_stack, pc, panic, announced>>
gameVars == <<board, turn, is_connected, is_draw, moves_stack>>

\* The ConnectFour value held in the variables.
Game ==
  [board |-> board, turn |-> turn, is_connected |-> is_connected,
   is_draw |-> is_draw, moves_stack |-> moves_stack]

SetGame(g) ==
  /\ board' = g.board
  /\ turn' = g.turn
  /\ is_connected' = g.is_connected
  /\ is_draw' = g.is_draw
  /\ moves_stack' = g.moves_stack

(* ------------------------------------------------------------------ *)
(* game.rs: the controller                                             *)
(* ------------------------------------------------------------------ *)
\* new with a fault: Blue moves first.
new_blue_first ==
  [board |-> [r \in Rows |-> [c \in Cols |-> White]],
   turn |-> Blue,
   is_connected |-> FALSE,
   is_draw |-> FALSE,
   moves_stack |-> <<>>]

new ==
  [board |-> [r \in Rows |-> [c \in Cols |-> White]],
   turn |-> Red,
   is_connected |-> FALSE,
   is_draw |-> FALSE,
   moves_stack |-> <<>>]

is_set(g, row, col) == g.board[row][col] # White

\* (0..MAX_ROW).rev().find(|&row| !self.is_set(row, col)), from `row` downwards.
RECURSIVE rev_find(_, _, _)
rev_find(g, col, row) ==
  IF row < 0 THEN None
  ELSE IF ~is_set(g, row, col) THEN Some(row)
  ELSE rev_find(g, col, row - 1)

\* get_empty_spot with a fault: the scan runs from the top row downwards.
RECURSIVE fwd_find(_, _, _)
fwd_find(g, col, row) ==
  IF row >= MAX_ROW THEN None
  ELSE IF ~is_set(g, row, col) THEN Some(row)
  ELSE fwd_find(g, col, row + 1)

get_empty_spot_from_top(g, col) == fwd_find(g, col, 0)

\* Defined for col < MAX_COL; the assert of line 40 is the guard of the
\* session loop's actions (RunAssertPanic).
\* get_empty_spot with a fault: the bottom row, whether it is empty or not.
get_empty_spot_bottom(g, col) == Some(MAX_ROW - 1)

get_empty_spot(g, col) == rev_find(g, col, MAX_ROW - 1)

\* r.windows(MIN_CONNECT).any(|window| window.iter().all(|&item| item == turn))
any_window(line, p) ==
  \E k \in 1 .. (Len(line) - MIN_CONNECT + 1) :
    \A m \in k .. (k + MIN_CONNECT - 1) : line[m] = p

\* self.board[row]
horizontal(g, row) == [j \in 1 .. MAX_COL |-> g.board[row][j - 1]]

\* self.board.iter().map(|r| r[col])
vertical(g, col) == [i \in 1 .. MAX_ROW |-> g.board[i - 1][col]]

\* The cells (i, j) of row i, j ascending, that the filter of the diagonal keeps:
\* row - i == col - j (down = TRUE, top left to bottom right) or
\* row - i == j - col (down = FALSE).
RECURSIVE row_filter(_, _, _, _, _, _)
row_filter(g, row, col, down, i, j) ==
  IF j >= MAX_COL THEN <<>>
  ELSE LET keep == IF down THEN row - i = col - j ELSE row - i = j - col
       IN (IF keep THEN <<g.board[i][j]>> ELSE <<>>)
            \o row_filter(g, row, col, down, i, j + 1)

\* self.board.iter().enumerate().flat_map(|(i, r)| ...filter...).collect()
RECURSIVE diagonal_from(_, _, _, _, _)
diagonal_from(g, row, col, down, i) ==
  IF i >= MAX_ROW THEN <<>>
  ELSE row_filter(g, row, col, down, i, 0) \o diagonal_from(g, row, col, down, i + 1)

diagonal(g, row, col, down) == diagonal_from(g, row, col, down, 0)

\* is_four_connected with a fault: the vertical axis is not checked.
is_four_connected_no_vertical(g, row, col) ==
  \/ any_window(horizontal(g, row), g.turn)
  \/ any_window(diagonal(g, row, col, TRUE), g.turn)
  \/ any_window(diagonal(g, row, col, FALSE), g.turn)

\* is_four_connected with a fault: only the two axes are checked.
is_four_connected_axes_only(g, row, col) ==
  \/ any_window(horizontal(g, row), g.turn)
  \/ any_window(vertical(g, col), g.turn)

\* Defined for row < MAX_ROW and col < MAX_COL (the asserts of lines 53-54).
is_four_connected(g, row, col) ==
  LET axis_checks ==
        \/ any_window(horizontal(g, row), g.turn)
        \/ any_window(vertical(g, col), g.turn)
  IN IF axis_checks THEN TRUE
     ELSE \/ any_window(diagonal(g, row, col, TRUE), g.turn)
          \/ any_window(diagonal(g, row, col, FALSE), g.turn)

is_full(g) == \A r \in Rows : \A c \in Cols : g.board[r][c] # White

is_over(g) == g.is_connected \/ g.is_draw

\* Line 130 of place: self.moves_stack.push((self.turn, (row, col)))
\* The push of place with a fault: the entry names the player who did not move.
place_push_other_pawn(g, row, col) ==
  [g EXCEPT !.moves_stack = Append(@, <<switch(g.turn), <<row, col>>>>)]

place_push(g, row, col) ==
  [g EXCEPT !.moves_stack = Append(@, <<g.turn, <<row, col>>>>)]

\* Line 131 of place indexes the board: out of bounds, the index panics.
place_index_panics(row, col) == ~(row < MAX_ROW) \/ ~(col < MAX_COL)

\* The outcome of a call that an assert! has stopped.
Panic(msg) == [tag |-> "Panic", val |-> msg]

\* get_empty_spot with a fault: a column out of range is clamped to the last.
get_empty_spot_clamped(g, col) ==
  get_empty_spot(g, IF col < MAX_COL THEN col ELSE MAX_COL - 1)

\* A call of get_empty_spot with any usize: the assert!, then the search.
get_empty_spot_call(g, col) ==
  IF ~(col < MAX_COL) THEN Panic("assertion failed: col < MAX_COL")
  ELSE get_empty_spot(g, col)

\* A call of is_four_connected with any usizes: the two assert!s in order,
\* then the scan.
is_four_connected_call(g, row, col) ==
  IF ~(col < MAX_COL) THEN Panic("assertion failed: col < MAX_COL")
  ELSE IF ~(row < MAX_ROW) THEN Panic("assertion failed: row < MAX_ROW")
  ELSE Some(is_four_connected(g, row, col))

\* place, for row and col in bounds: the four statements in order.
place(g, row, col) ==
  LET g1 == place_push(g, row, col)
      g2 == [g1 EXCEPT !.board[row][col] = g1.turn]
      g3 == [g2 EXCEPT !.is_connected = is_four_connected(g2, row, col)]
      g4 == [g3 EXCEPT !.is_draw = is_full(g3)]
  IN g4

(* ------------------------------------------------------------------ *)
(* game.rs: the view                                                   *)
(* ------------------------------------------------------------------ *)
Ok(v) == [tag |-> "Ok", val |-> v]
Err == [tag |-> "Err", val |-> 0]

\* The lines typed at the prompt: <<kind, n>>. "num" is the decimal text of n;
\* "neg" is the text of -n; "empty" and "text" are an empty line and a word.
RawLines ==
  {<<"num", n>> : n \in 0 .. MaxInput} \cup {<<"neg", 1>>, <<"empty", 0>>, <<"text", 0>>}

\* input.trim().parse::<usize>()
parse(line) == IF line[1] = "num" THEN Ok(line[2]) ELSE Err

validate_column_number(col) == IF col > MAX_COL THEN Err ELSE Ok(col)

\* game.moves_stack.last().unwrap().0
last_mover(g) == g.moves_stack[Len(g.moves_stack)][1]

\* The announcement with a fault: the winner is read from the turn.
announcement_by_turn(g) == IF g.is_connected THEN g.turn ELSE "Draw"

\* What run() prints after the loop.
announcement(g) == IF g.is_connected THEN last_mover(g) ELSE "Draw"

\* Lines 178-179 of run(), for a column that get_empty_spot finds a row in.
place_and_switch(g, col) ==
  LET placed == place(g, get_empty_spot(g, col).val, col)
  IN [placed EXCEPT !.turn = switch(@)]

\* The columns typed in the first 34 turns of one game: no four are connected
\* after them, columns 1 and 5 are full and 10 cells are empty.
Opening ==
  <<6, 6, 4, 6, 1, 0, 2, 6, 5, 1, 2, 5, 2, 3, 4, 1, 1, 4, 0, 3, 5, 5, 6, 2, 4,
    3, 0, 1, 3, 1, 5, 5, 0, 2>>

\* The game when run() has read the columns cols[k], cols[k+1], ... from game g:
\* the loop ends when the game is over.
RECURSIVE replay_from(_, _, _)
replay_from(g, cols, k) ==
  IF k > Len(cols) \/ is_over(g) THEN g
  ELSE replay_from(place_and_switch(g, cols[k]), cols, k + 1)

replay(cols) == replay_from(new, cols, 1)

\* Every column of cols is accepted by run(): the column is in range and not
\* full when it is typed, and the game is not over before the last of them.
RECURSIVE playable_from(_, _, _)
playable_from(g, cols, k) ==
  IF k > Len(cols) THEN TRUE
  ELSE /\ ~is_over(g)
       /\ cols[k] < MAX_COL
       /\ get_empty_spot(g, cols[k]).tag = "Some"
       /\ playable_from(place_and_switch(g, cols[k]), cols, k + 1)

playable(cols) == playable_from(new, cols, 1)

(* ------------------------------------------------------------------ *)
(* run(): one action per path through one iteration of the loop        *)
(* ------------------------------------------------------------------ *)
GameIs(g) ==
  /\ board = g.board
  /\ turn = g.turn
  /\ is_connected = g.is_connected
  /\ is_draw = g.is_draw
  /\ moves_stack = g.moves_stack

\* The loop condition with a fault: the loop goes on when the game is over.
AtPrompt_ignores_over == pc = "loop"

AtPrompt == pc = "loop" /\ ~is_over(Game)

Abort(msg) ==
  /\ pc' = "panicked"
  /\ panic' = msg
  /\ UNCHANGED <<gameVars, announced>>

\* input_column_number: parse(...).unwrap() on a line that is no usize.
RunParsePanic(line) ==
  /\ AtPrompt
  /\ parse(line).tag = "Err"
  /\ Abort("unwrap on Err: parse")

\* The rejection with a fault: the rejected player loses the turn.
RunReject_passes_turn(line) ==
  /\ pc = "loop" /\ ~is_over(Game)
  /\ parse(line).tag = "Ok"
  /\ validate_column_number(parse(line).val).tag = "Err"
  /\ turn' = switch(turn)
  /\ UNCHANGED <<board, is_connected, is_draw, moves_stack, pc, panic, announced>>

\* validate_column_number returns Err: `continue`.
RunReject(line) ==
  /\ AtPrompt
  /\ parse(line).tag = "Ok"
  /\ validate_column_number(parse(line).val).tag = "Err"
  /\ UNCHANGED vars

\* get_empty_spot: assert!(col < MAX_COL) fails.
RunAssertPanic(line) ==
  /\ AtPrompt
  /\ parse(line).tag = "Ok"
  /\ validate_column_number(parse(line).val).tag = "Ok"
  /\ ~(validate_column_number(parse(line).val).val < MAX_COL)
  /\ Abort("assertion failed: col < MAX_COL")

\* get_empty_spot(col) is None: unwrap() panics.
RunUnwrapPanic(line) ==
  /\ AtPrompt
  /\ parse(line).tag = "Ok"
  /\ validate_column_number(parse(line).val).tag = "Ok"
  /\ LET col == validate_column_number(parse(line).val).val
     IN /\ col < MAX_COL
        /\ get_empty_spot(Game, col).tag = "None"
  /\ Abort("unwrap on None: get_empty_spot")

\* The slice of run()'s behaviours the model explores.
Explored(g) ==
  \/ Len(g.moves_stack) < MaxMoves
  \/ /\ Len(g.moves_stack) >= Len(Opening)
     /\ \A k \in 1 .. Len(Opening) : g.moves_stack[k][2][2] = Opening[k]

\* game.place(game.get_empty_spot(col).unwrap(), col); game.turn.switch();
RunPlace(line) ==
  /\ AtPrompt
  /\ Explored(Game)
  /\ parse(line).tag = "Ok"
  /\ validate_column_number(parse(line).val).tag = "Ok"
  /\ LET col == validate_column_number(parse(line).val).val
     IN /\ col < MAX_COL
        /\ get_empty_spot(Game, col).tag = "Some"
        /\ SetGame(place_and_switch(Game, col))
  /\ UNCHANGED <<pc, panic, announced>>

\* The loop condition fails: render, announce, return.
RunExit ==
  /\ pc = "loop"
  /\ is_over(Game)
  /\ pc' = "done"
  /\ announced' = announcement(Game)
  /\ UNCHANGED <<gameVars, panic>>

\* One iteration of the loop that reads `line` at the prompt.
Iteration(line) ==
  \/ RunParsePanic(line)
  \/ RunReject(line)
  \/ RunAssertPanic(line)
  \/ RunUnwrapPanic(line)
  \/ RunPlace(line)

Run ==
  \/ \E line \in RawLines : Iteration(line)
  \/ RunExit

(* ------------------------------------------------------------------ *)
(* Spec: run() from ConnectFour::new(), and from the game that run()   *)
(* has reached when the columns of Opening have been typed             *)
(* ------------------------------------------------------------------ *)
InitNew ==
  /\ GameIs(new)
  /\ pc = "loop"
  /\ panic = "none"
  /\ announced = "nothing"

InitOpening ==
  /\ playable(Opening)
  /\ GameIs(replay(Opening))
  /\ pc = "loop"
  /\ panic = "none"
  /\ announced = "nothing"

Init == InitNew \/ InitOpening

Next == Run

Spec == Init /\ [][Next]_vars

\* run() from the opening at a prompt that sooner or later reads a column that
\* can be played: a placement that is enabled again and again is taken, and the
\* loop, whose condition is tested after every iteration, exits when it can.
SpecLive ==
  /\ InitOpening
  /\ [][Next]_vars
  /\ SF_vars(\E line \in RawLines : RunPlace(line))
  /\ WF_vars(RunExit)

(* ------------------------------------------------------------------ *)
(* SpecApi: run() from the opening, and a caller that calls place      *)
(* itself, once, with any row in 0..MAX_ROW and col in 0..MAX_COL      *)
(* ------------------------------------------------------------------ *)
ForcedPlace(row, col) ==
  /\ pc = "loop"
  /\ IF place_index_panics(row, col)
     THEN /\ SetGame(place_push(Game, row, col))
          /\ pc' = "panicked"
          /\ panic' = "index out of bounds"
     ELSE /\ SetGame(place(Game, row, col))
          /\ pc' = "called"
          /\ panic' = panic
  /\ UNCHANGED announced

\* The caller calls a method that takes &self: it panics or returns.
Returns(outcome) ==
  /\ pc = "loop"
  /\ IF outcome.tag = "Panic"
     THEN Abort(outcome.val)
     ELSE /\ pc' = "returned"
          /\ UNCHANGED <<gameVars, panic, announced>>

CallGetEmptySpot(col) == Returns(get_empty_spot_call(Game, col))

CallIsFourConnected(row, col) == Returns(is_four_connected_call(Game, row, col))

NextApi ==
  \/ Run
  \/ \E row \in 0 .. MAX_ROW : \E col \in 0 .. MAX_COL : ForcedPlace(row, col)
  \/ \E col \in 0 .. MaxInput : CallGetEmptySpot(col)
  \/ \E row \in 0 .. MaxInput : \E col \in 0 .. MaxInput :
       CallIsFourConnected(row, col)

SpecApi == InitOpening /\ [][NextApi]_vars

(* ------------------------------------------------------------------ *)
(* SpecBoards: the engine on the boards of the tests (from_board), on   *)
(* the board of the opening, and on every board that differs from one  *)
(* of these in one cell, for either colour to move                     *)
(* ------------------------------------------------------------------ *)
\* The board of a test: Red on the cells of reds, White elsewhere.
red_on(reds) ==
  [r \in Rows |-> [c \in Cols |-> IF <<r, c>> \in reds THEN Red ELSE White]]

TestBoards ==
  { red_on({<<2, 0>>, <<3, 0>>, <<4, 0>>, <<5, 0>>}),     \* vertical_pass
    red_on({<<0, 0>>, <<1, 0>>, <<3, 0>>, <<4, 0>>}),     \* vertical_fail
    red_on({<<0, 0>>, <<0, 1>>, <<0, 2>>, <<0, 3>>}),     \* horizontal_pass
    red_on({<<0, 0>>, <<0, 1>>, <<0, 2>>, <<0, 4>>}),     \* horizontal_fail
    red_on({<<2, 0>>, <<3, 1>>, <<4, 2>>, <<5, 3>>}),     \* top_left_to_bottom_right_pass
    red_on({<<1, 0>>, <<2, 1>>, <<4, 3>>, <<5, 4>>}),     \* top_left_to_bottom_right_fail
    red_on({<<2, 3>>, <<3, 2>>, <<4, 1>>, <<5, 0>>}),     \* bottom_left_to_top_right_pass
    red_on({<<1, 4>>, <<2, 3>>, <<4, 1>>, <<5, 0>>}) }    \* bottom_left_to_top_right_fail

from_board(b) ==
  [board |-> b, is_draw |-> FALSE, is_connected |-> FALSE, turn |-> Red,
   moves_stack |-> <<>>]

\* The boards the edits start from: those of the tests, and the board of the
\* opening (two full columns, both colours).
SeedBoards == TestBoards \cup {replay(Opening).board}

InitBoards ==
  /\ \E b \in SeedBoards : GameIs(from_board(b))
  /\ pc = "test"
  /\ panic = "none"
  /\ announced = "nothing"

\* Another board is handed to from_board: one cell of a seed board differs.
EditBoard ==
  /\ pc = "test"
  /\ board \in SeedBoards
  /\ \E row \in Rows : \E col \in Cols : \E p \in Pawn :
       board' = [board EXCEPT ![row][col] = p]
  /\ UNCHANGED <<turn, is_connected, is_draw, moves_stack, pc, panic, announced>>

\* The test calls turn.switch().
TestSwitch ==
  /\ pc = "test"
  /\ turn' = switch(turn)
  /\ UNCHANGED <<board, is_connected, is_draw, moves_stack, pc, panic, announced>>

NextBoards ==
  \/ EditBoard
  \/ TestSwitch

SpecBoards == InitBoards /\ [][NextBoards]_vars

(* ------------------------------------------------------------------ *)
(* Reference definitions of the properties, by cell coordinates        *)
(* ------------------------------------------------------------------ *)
\* The four line directions: row, column, '\' diagonal, '/' diagonal.
Directions == {<<0, 1>>, <<1, 0>>, <<1, 1>>, <<1, -1>>}

\* The MIN_CONNECT cells from (r0, c0) in direction d lie on the grid and hold p.
run_of(b, p, r0, c0, d) ==
  \A k \in 0 .. (MIN_CONNECT - 1) :
    /\ r0 + k * d[1] \in Rows
    /\ c0 + k * d[2] \in Cols
    /\ b[r0 + k * d[1]][c0 + k * d[2]] = p

\* Some MIN_CONNECT consecutive cells of a line through (row, col) hold p:
\* the run starts t cells before or after (row, col) on that line.
connected_through(b, p, row, col) ==
  \E d \in Directions : \E t \in (1 - MAX_COL) .. (MAX_COL - 1) :
    run_of(b, p, row + t * d[1], col + t * d[2], d)

\* Some MIN_CONNECT consecutive cells of some line hold the same colour.
connected_anywhere(b) ==
  \E p \in {Red, Blue} : \E d \in Directions : \E r0 \in Rows : \E c0 \in Cols :
    run_of(b, p, r0, c0, d)

count_of(b, p) == Cardinality({rc \in Rows \X Cols : b[rc[1]][rc[2]] = p})

\* The move-log entry of the last placement.
last_move == moves_stack[Len(moves_stack)]

(* ------------------------------------------------------------------ *)
(* The claims                                                          *)
(* ------------------------------------------------------------------ *)

\* C1: connected and draw are never both true; both are false before the
\* first placement; after a placement draw = (grid full and not connected).
C1_DrawExcludesConnected ==
  /\ ~(is_connected /\ is_draw)
  /\ (moves_stack = <<>> => ~is_connected /\ ~is_draw)
  /\ (moves_stack # <<>> => (is_draw <=> (is_full(Game) /\ ~is_connected)))

\* C2: the cells of Red and of Blue differ in number by at most 1, and Red
\* never has fewer than Blue, whatever run() has read.
C2_Alternation ==
  LET a == count_of(board, Red)
      b == count_of(board, Blue)
  IN a = b \/ a = b + 1

\* C2 witness: Red has one cell more than Blue in a game that run() aborted on
\* a full column.
C2_Witness ==
  /\ panic = "unwrap on None: get_empty_spot"
  /\ count_of(board, Red) = count_of(board, Blue) + 1

\* C3: after every placement the connected flag that place computed from the
\* placed cell equals the scan of the whole grid for MIN_CONNECT consecutive
\* cells of one colour.
C3_IncrementalIsFullScan ==
  moves_stack # <<>> => (is_connected <=> connected_anywhere(board))

\* C3 witness: a placement connected four on a diagonal only.
C3_Witness ==
  /\ moves_stack # <<>>
  /\ is_connected
  /\ \A p \in {Red, Blue} : \A r0 \in Rows : \A c0 \in Cols :
       ~run_of(board, p, r0, c0, <<0, 1>>) /\ ~run_of(board, p, r0, c0, <<1, 0>>)

\* C4: when connected is true, the winner run() announces is the player of
\* the last move-log entry, who owns MIN_CONNECT consecutive cells on a line
\* through that entry's cell; the toggle after the placement (the turn is
\* the other player) does not change it.
C4_WinnerIsLastMover ==
  (pc = "done" /\ is_connected) =>
    /\ announced = last_move[1]
    /\ announced \in {Red, Blue}
    /\ turn = switch(announced)
    /\ connected_through(board, announced, last_move[2][1], last_move[2][2])

\* C4 witness: run() announced Blue as the winner.
C4_Witness == pc = "done" /\ is_connected /\ announced = Blue

\* C5: a column number c >= MAX_COL read at the prompt is recovered: the
\* program does not abort, the game is unchanged, the same player is prompted.
C5_OutOfRangeIsRecovered ==
  [][\A line \in RawLines :
       (/\ AtPrompt
        /\ parse(line).tag = "Ok"
        /\ parse(line).val >= MAX_COL
        /\ Iteration(line))
       => (pc' = "loop" /\ panic' = "none" /\ UNCHANGED gameVars)]_vars

\* C6: an in-range column whose rows are all occupied is recovered: place is
\* not called, the program does not abort, the game and the turn are unchanged.
C6_FullColumnIsRecovered ==
  [][\A line \in RawLines :
       (/\ AtPrompt
        /\ parse(line).tag = "Ok"
        /\ parse(line).val < MAX_COL
        /\ get_empty_spot(Game, parse(line).val).tag = "None"
        /\ Iteration(line))
       => (pc' = "loop" /\ panic' = "none" /\ UNCHANGED gameVars)]_vars

\* C7: once the game is over, place(row, col) with in-bounds coordinates fails
\* with a contract violation and changes nothing of the game.
C7_PlaceAfterOverFails ==
  [][\A row \in Rows : \A col \in Cols :
       (is_over(Game) /\ ForcedPlace(row, col))
       => (pc' = "panicked" /\ UNCHANGED gameVars)]_vars

\* C8: place(row, col) on a non-empty cell, or out of bounds, fails with a
\* contract violation: the cell keeps its pawn and the move log its length.
C8_PlaceOnTakenCellFails ==
  [][\A row \in 0 .. MAX_ROW : \A col \in 0 .. MAX_COL :
       (/\ place_index_panics(row, col) \/ is_set(Game, row, col)
        /\ ForcedPlace(row, col))
       => (pc' = "panicked" /\ board' = board /\ moves_stack' = moves_stack)]_vars

\* C9: get_empty_spot(col) is the greatest row whose cell in the column is
\* White, and None exactly when no cell of the column is White.
C9_LowestEmptyRow ==
  \A col \in Cols :
    LET empty == {r \in Rows : board[r][col] = White}
        spot == get_empty_spot(Game, col)
    IN /\ (spot.tag = "None") <=> (empty = {})
       /\ empty # {} => (spot.tag = "Some" /\ spot.val \in empty
                          /\ \A r \in empty : r <= spot.val)

\* C9 witness: one column is full, and in another a White cell lies below a
\* pawn (the spot is that cell, not the cell above the pawn).
C9_Witness ==
  /\ pc = "test"
  /\ \E col \in Cols : get_empty_spot(Game, col).tag = "None"
  /\ \E col \in Cols : \E r \in Rows :
       /\ get_empty_spot(Game, col) = Some(r)
       /\ \E above \in Rows : above < r /\ board[above][col] # White

\* C10: is_four_connected(row, col) is true exactly when MIN_CONNECT
\* consecutive cells of the row, the column or a diagonal through (row, col),
\* clipped at the edges, hold the colour of the turn.
C10_WindowOnLineThroughAnchor ==
  \A row \in Rows : \A col \in Cols :
    is_four_connected(Game, row, col) <=> connected_through(board, turn, row, col)

\* C10 witness: four on a diagonal are found from an anchor on it, and on the
\* same board four cells of the colour with a gap on one line are not.
C10_Witness ==
  /\ pc = "test"
  /\ \E row \in Rows : \E col \in Cols :
       /\ is_four_connected(Game, row, col)
       /\ ~any_window(horizontal(Game, row), turn)
       /\ ~any_window(vertical(Game, col), turn)
  /\ \E row \in Rows : \E col \in Cols :
       /\ ~is_four_connected(Game, row, col)
       /\ Cardinality({c \in Cols : board[row][c] = turn}) >= MIN_CONNECT

\* C11: in run(), the game becomes over only in a step that places a pawn (the
\* move log grows by the entry of a cell that now holds the mover's colour), and
\* once is_over() is true no step changes the board, the turn, the flags or the
\* move log, so is_over() stays true.
C11_OverOnlyByPlaceAndAbsorbing ==
  [][/\ (~is_over(Game) /\ is_over(Game)')
          => \E row \in Rows : \E col \in Cols :
               /\ moves_stack' = Append(moves_stack, <<turn, <<row, col>>>>)
               /\ board[row][col] = White
               /\ board'[row][col] = turn
     /\ is_over(Game) => (is_over(Game)' /\ UNCHANGED gameVars)]_vars

\* C11 witness: the game is over and the loop of run() has stopped.
C11_Witness == pc = "done" /\ is_over(Game) /\ announced = Red

\* C12: place(row, col) on an empty cell of a game that is not over changes the
\* cell (row, col) to the colour of the turn and no other cell, appends one
\* entry to the move log, recomputes is_connected and is_draw, and leaves the
\* turn alone; an iteration of run() passes the turn to the other player
\* exactly when it has placed a pawn, and leaves turn and board alone otherwise.
C12_PlaceFrameAndTurnToggle ==
  [][/\ \A row \in Rows : \A col \in Cols :
          (/\ ~is_over(Game)
           /\ ~is_set(Game, row, col)
           /\ ForcedPlace(row, col))
          => /\ board' = [board EXCEPT ![row][col] = turn]
             /\ moves_stack' = Append(moves_stack, <<turn, <<row, col>>>>)
             /\ is_connected' = connected_through(board', turn, row, col)
             /\ is_draw' = (count_of(board', White) = 0)
             /\ turn' = turn
     /\ \A line \in RawLines :
          Iteration(line)
          => IF moves_stack' # moves_stack
             THEN /\ Len(moves_stack') = Len(moves_stack) + 1
                  /\ turn' \in {Red, Blue} \ {turn}
             ELSE /\ turn' = turn
                  /\ board' = board]_vars

\* C12 witness: place was called on an empty cell after the opening and has
\* returned; the turn is still that of the pawn it placed.
C12_Witness ==
  /\ pc = "called"
  /\ Len(moves_stack) = Len(Opening) + 1
  /\ count_of(board, White) = MAX_ROW * MAX_COL - Len(moves_stack)
  /\ board[last_move[2][1]][last_move[2][2]] = turn
  /\ turn = last_move[1]

\* C13: in every state of run() the move log has one entry for each non-empty
\* cell, every entry (player, (row, col)) names a cell that holds the player's
\* colour, and no two entries name the same cell; every step leaves the log
\* unchanged or appends one entry at its end.
C13_MoveLogAppendOnly ==
  /\ [](/\ Len(moves_stack) = MAX_ROW * MAX_COL - count_of(board, White)
        /\ \A k \in 1 .. Len(moves_stack) :
             /\ moves_stack[k][2][1] \in Rows
             /\ moves_stack[k][2][2] \in Cols
             /\ moves_stack[k][1] \in {Red, Blue}
             /\ board[moves_stack[k][2][1]][moves_stack[k][2][2]] = moves_stack[k][1]
        /\ \A j, k \in 1 .. Len(moves_stack) :
             moves_stack[j][2] = moves_stack[k][2] => j = k)
  /\ [][\/ moves_stack' = moves_stack
        \/ /\ Len(moves_stack') = Len(moves_stack) + 1
           /\ SubSeq(moves_stack', 1, Len(moves_stack)) = moves_stack]_vars

\* C13 witness: the grid is full and the log holds all its cells.
C13_Witness ==
  /\ pc = "done"
  /\ Len(moves_stack) = MAX_ROW * MAX_COL
  /\ count_of(board, White) = 0

\* C14: when the prompt sooner or later reads a column that is in range and not
\* full, the game becomes over within MAX_ROW * MAX_COL placements and the loop
\* of run() stops with a winner or a draw announced.
C14_GameEnds ==
  <>(/\ pc = "done"
     /\ is_over(Game)
     /\ Len(moves_stack) <= MAX_ROW * MAX_COL
     /\ announced \in {Red, Blue, "Draw"})

\* C15: a line that is no column number (text, an empty line, a negative
\* number) leads back to the prompt: the program does not abort, place is not
\* called, and the game and the turn are unchanged.
C15_UnparsableIsRetried ==
  [][\A line \in RawLines :
       (/\ AtPrompt
        /\ parse(line).tag = "Err"
        /\ Iteration(line))
       => (pc' = "loop" /\ panic' = "none" /\ UNCHANGED gameVars)]_vars

\* C16: in run(), a cell that holds a pawn holds the same pawn after every
\* step: it is never emptied and never changes colour.
C16_CellsAreWriteOnce ==
  [][\A row \in Rows : \A col \in Cols :
       board[row][col] # White => board'[row][col] = board[row][col]]_vars

\* C16 witness: the first three pawns of a game went into one column, and each
\* is still in the cell it was placed in.
C16_Witness ==
  /\ Len(moves_stack) = 3
  /\ \A k \in 1 .. 3 :
       /\ moves_stack[k][2] = <<MAX_ROW - k, moves_stack[1][2][2]>>
       /\ board[MAX_ROW - k][moves_stack[1][2][2]] = moves_stack[k][1]

\* C17: in every state of run() no pawn has an empty cell below it: the pawns
\* of each column are the cells from some row down to row MAX_ROW - 1; and the
\* pawn placed last is the top of its column.
C17_Gravity ==
  /\ \A col \in Cols : \A row \in 0 .. MAX_ROW - 2 :
       board[row][col] # White => board[row + 1][col] # White
  /\ moves_stack # <<>> =>
       \/ last_move[2][1] = 0
       \/ board[last_move[2][1] - 1][last_move[2][2]] = White

\* C17 witness: a placement after the opening landed on a stack of at least
\* two pawns while another column holds fewer pawns than that stack.
C17_Witness ==
  /\ Len(moves_stack) > Len(Opening)
  /\ last_move[2][1] <= MAX_ROW - 3
  /\ \E col \in Cols : board[last_move[2][1] + 1][col] = White

\* C18: get_empty_spot called with a column that is not below MAX_COL aborts
\* and returns no row; is_four_connected called with a row that is not below
\* MAX_ROW or a column that is not below MAX_COL aborts as well; in both cases
\* the game is as it was.
C18_OutOfRangeCallsAbort ==
  [][/\ \A col \in 0 .. MaxInput :
          (col >= MAX_COL /\ CallGetEmptySpot(col))
          => (pc' = "panicked" /\ panic' # "none" /\ UNCHANGED gameVars)
     /\ \A row \in 0 .. MaxInput : \A col \in 0 .. MaxInput :
          ((row >= MAX_ROW \/ col >= MAX_COL) /\ CallIsFourConnected(row, col))
          => (pc' = "panicked" /\ panic' # "none" /\ UNCHANGED gameVars)]_vars

\* C18 witness: a call has been stopped by the assert! on the row, which only
\* is_four_connected has.
C18_Witness ==
  /\ pc = "panicked"
  /\ panic = "assertion failed: row < MAX_ROW"

\* C19: the turn is Red or Blue and never White; a game starts with Red to
\* move on a board of White cells with both flags false; switch takes Red to
\* Blue, Blue to Red and White to White, and applied twice gives back the pawn;
\* so the entries of the move log, counted from 0, are Red's at the even
\* positions and Blue's at the odd ones, and the turn is that of the next entry.
C19_TurnAlternatesFromRed ==
  /\ turn \in {Red, Blue}
  /\ new.turn = Red /\ ~new.is_connected /\ ~new.is_draw
  /\ count_of(new.board, White) = MAX_ROW * MAX_COL
  /\ switch(Red) = Blue /\ switch(Blue) = Red /\ switch(White) = White
  /\ \A p \in Pawn : switch(switch(p)) = p
  /\ \A k \in 0 .. Len(moves_stack) - 1 :
       moves_stack[k + 1][1] = IF k % 2 = 0 THEN Red ELSE Blue
  /\ turn = IF Len(moves_stack) % 2 = 0 THEN Red ELSE Blue
  /\ moves_stack = <<>> =>
       /\ ~is_connected /\ ~is_draw
       /\ count_of(board, White) = MAX_ROW * MAX_COL

\* C19 witness: Red has won with the pawn of an entry at an even position of
\* the log, and the turn has passed to Blue.
C19_Witness ==
  /\ pc = "done"
  /\ Len(moves_stack) % 2 = 1
  /\ last_move[1] = Red
  /\ turn = Blue
  /\ is_connected
====
